---- MODULE Spec2Model ----
(***************************************************************************)
(* Model of src/finalproject.py: a single-shot script that picks one movie *)
(* out of four for five persons.  It precomputes 0/1 preference indicators *)
(* (lines 36-72), builds the satisfaction expressions H (76-86), the       *)
(* objective (89) and the constraints (92-101), solves the boolean         *)
(* program (104-107) and prints the result (110-123).                      *)
(*                                                                         *)
(* The script calls the solver through the namespace gp with the calls     *)
(* Variable(n, boolean=True), sum, Maximize, Problem, solve and the        *)
(* attribute .value; the model gives them the meaning these calls have in  *)
(* the modelling interface they belong to: solve() returns with            *)
(* status "optimal" and an optimal assignment, or with status "infeasible" *)
(* and every .value equal to None.                                         *)
(*                                                                         *)
(* Encodings.  Costs are in cents and ratings in tenths, so that the       *)
(* comparisons of lines 49, 62, 69 are integer comparisons.  A linear      *)
(* expression over x is [num |-> coefficients, den |-> divisor].  A float  *)
(* value is its number of ten-thousandths (0.75 is 7500), which is exact   *)
(* for the quarters the script computes.  Python lists are sequences       *)
(* (list index i is sequence index i+1); a dict is a function on its keys; *)
(* None is the empty sequence.                                             *)
(***************************************************************************)
EXTENDS Integers, Sequences, FiniteSets

VARIABLES movies, person_preferences,
          Lp_indicators, Gp_indicators, Cp_indicators, Rp_indicators,
          H, obj_func, constraints,
          status, x_value, out, pc, p, i, error

vars == <<movies, person_preferences,
          Lp_indicators, Gp_indicators, Cp_indicators, Rp_indicators,
          H, obj_func, constraints,
          status, x_value, out, pc, p, i, error>>

NumMovies == 4
NumPersons == 5
Dims == 4
Scale == 10000

None == <<>>

MovieIds == 1..NumMovies
PersonIds == 1..NumPersons

(***************************************************************************)
(* The tables of lines 7-23.                                               *)
(***************************************************************************)
RefMovies ==
  [m \in MovieIds |->
     CASE m = 1 -> [name |-> "Amazing Spiderman", length |-> 136,
                    genre |-> "Action", cost |-> 629, rating |-> 69]
       [] m = 2 -> [name |-> "Night of the Museum", length |-> 108,
                    genre |-> "Adventure", cost |-> 399, rating |-> 64]
       [] m = 3 -> [name |-> "Cheaper by the Dozen", length |-> 98,
                    genre |-> "Comedy", cost |-> 300, rating |-> 59]
       [] m = 4 -> [name |-> "Hidden Figures", length |-> 127,
                    genre |-> "Drama", cost |-> 499, rating |-> 78]]

RefPrefs ==
  [q \in PersonIds |->
     CASE q = 1 -> [length |-> <<90, 130>>, cost |-> <<0, 700>>,
                    rating |-> <<60, 100>>, genres |-> {"Action", "Comedy"}]
       [] q = 2 -> [length |-> <<100, 160>>, cost |-> <<0, 1200>>,
                    rating |-> <<70, 100>>,
                    genres |-> {"Drama", "Thriller", "Romance"}]
       [] q = 3 -> [length |-> <<80, 110>>, cost |-> <<0, 1000>>,
                    rating |-> <<50, 80>>, genres |-> {"Horror", "Sci-Fi"}]
       [] q = 4 -> [length |-> <<95, 150>>, cost |-> <<0, 800>>,
                    rating |-> <<60, 90>>,
                    genres |-> {"Comedy", "Animation", "Adventure"}]
       [] q = 5 -> [length |-> <<70, 120>>, cost |-> <<0, 500>>,
                    rating |-> <<40, 70>>, genres |-> {"Action", "Documentary"}]]

(***************************************************************************)
(* The inputs the runs are checked on: the tables above, and the tables    *)
(* with one person's preferences or one movie's record replaced.  The      *)
(* replacements put range bounds on catalog values (108 and 136 minutes,   *)
(* 3.00 and 6.29, 5.9 and 7.8), reverse a range, exclude every movie, or   *)
(* leave a key out of the dict.                                            *)
(***************************************************************************)
Drop(r, k) == [f \in DOMAIN r \ {k} |-> r[f]]

LengthRanges == {<<108, 136>>, <<130, 90>>, <<137, 200>>}
CostRanges == {<<300, 629>>, <<700, 0>>, <<1000, 1200>>}
RatingRanges == {<<59, 78>>, <<100, 60>>, <<90, 100>>}
GenreSets == {{}, {"Action", "Adventure", "Comedy", "Drama"}}

PrefVariants(r) ==
  {[length |-> l, cost |-> c, rating |-> t, genres |-> g] :
      l \in LengthRanges \cup {r.length}, c \in CostRanges \cup {r.cost},
      t \in RatingRanges \cup {r.rating}, g \in GenreSets \cup {r.genres}}
  \cup {Drop(r, k) : k \in DOMAIN r}

MovieVariants(r) ==
  {[r EXCEPT !.length = l, !.cost = c, !.rating = t] :
      l \in {r.length, 130, 100}, c \in {r.cost, 500, 700}, t \in {r.rating, 70, 60}}
  \cup {Drop(r, k) : k \in DOMAIN r}

PrefTables ==
  {[RefPrefs EXCEPT ![q] = v] : q \in PersonIds, v \in UNION {PrefVariants(RefPrefs[r]) : r \in PersonIds}}

MovieTables ==
  UNION {{[RefMovies EXCEPT ![m] = v] : v \in MovieVariants(RefMovies[m])} : m \in MovieIds}

(***************************************************************************)
(* Helpers of the preprocessing loop.                                      *)
(***************************************************************************)
Has(d, k) == k \in DOMAIN d

\* the upper bound taken as exclusive
InRangeOpenMax(lo, v, hi) == lo <= v /\ v < hi

\* lines 49, 62, 69: min <= value <= max
InRange(lo, v, hi) == lo <= v /\ v <= hi

\* the append(1) / append(0) branches
Indicator(b) == IF b THEN 1 ELSE 0

\* dict[key] = dict[key] + [v], the key created on first use (lines 37-40)
Put(d, k, s) == [q \in DOMAIN d \cup {k} |-> IF q = k THEN s ELSE d[q]]

Init ==
  /\ \/ movies = RefMovies /\ person_preferences \in PrefTables
     \/ movies \in MovieTables /\ person_preferences = RefPrefs
  /\ Lp_indicators = <<>>
  /\ Gp_indicators = <<>>
  /\ Cp_indicators = <<>>
  /\ Rp_indicators = <<>>
  /\ H = <<>>
  /\ obj_func = None
  /\ constraints = <<>>
  /\ status = "unsolved"
  /\ x_value = None
  /\ out = <<>>
  /\ pc = "preprocess"
  /\ p = 1
  /\ i = 0
  /\ error = "none"

Halt(e) == pc' = "halted" /\ error' = e

(***************************************************************************)
(* Lines 36-72: one iteration of the inner loop for person p and list      *)
(* index i (with the four lists of person p created when i = 0).  A key    *)
(* that is absent raises KeyError at the statement that reads it; the      *)
(* appends made before it stay.                                            *)
(***************************************************************************)
Preprocess ==
  /\ pc = "preprocess"
  /\ LET prefs == person_preferences[p]
         movie == movies[i + 1]
         L0 == IF i = 0 THEN <<>> ELSE Lp_indicators[p]
         G0 == IF i = 0 THEN <<>> ELSE Gp_indicators[p]
         C0 == IF i = 0 THEN <<>> ELSE Cp_indicators[p]
         R0 == IF i = 0 THEN <<>> ELSE Rp_indicators[p]
         okL == Has(prefs, "length") /\ Has(movie, "length")
         okG == okL /\ Has(movie, "genre") /\ Has(prefs, "genres")
         okC == okG /\ Has(prefs, "cost") /\ Has(movie, "cost")
         okR == okC /\ Has(prefs, "rating") /\ Has(movie, "rating")
     IN /\ Lp_indicators' = Put(Lp_indicators, p,
             IF okL THEN Append(L0, Indicator(InRange(prefs.length[1], movie.length, prefs.length[2])))
                    ELSE L0)
        /\ Gp_indicators' = Put(Gp_indicators, p,
             IF okG THEN Append(G0, Indicator(movie.genre \in prefs.genres))
                    ELSE G0)
        /\ Cp_indicators' = Put(Cp_indicators, p,
             IF okC THEN Append(C0, Indicator(InRange(prefs.cost[1], movie.cost, prefs.cost[2])))
                    ELSE C0)
        /\ Rp_indicators' = Put(Rp_indicators, p,
             IF okR THEN Append(R0, Indicator(InRange(prefs.rating[1], movie.rating, prefs.rating[2])))
                    ELSE R0)
        /\ IF ~okR
             THEN Halt("KeyError") /\ UNCHANGED <<p, i>>
             ELSE /\ error' = error
                  /\ IF i + 1 < NumMovies
                       THEN i' = i + 1 /\ p' = p /\ pc' = pc
                       ELSE IF p < NumPersons
                              THEN i' = 0 /\ p' = p + 1 /\ pc' = pc
                              ELSE i' = 0 /\ p' = 1 /\ pc' = "buildH"
  /\ UNCHANGED <<movies, person_preferences, H, obj_func, constraints,
                 status, x_value, out>>

(***************************************************************************)
(* Linear expressions over the selection variables x (line 26).            *)
(***************************************************************************)
RECURSIVE SumSeq(_)
SumSeq(s) == IF s = <<>> THEN 0 ELSE Head(s) + SumSeq(Tail(s))

\* the value of sum_i x[i] * c[i]
Dot(c, y) == SumSeq([k \in 1..Len(c) |-> c[k] * y[k]])

\* gp.sum([x[i] * ind[i] for i in range(4)]), lines 79-82
WeightedSum(ind) == [k \in 1..NumMovies |-> ind[k]]

\* Lp + Gp + Cp + Rp, line 85
AddCoef(a, b) == [k \in 1..NumMovies |-> a[k] + b[k]]

\* the division by 4 left out
HpNotDivided(q) ==
  [num |-> AddCoef(AddCoef(WeightedSum(Lp_indicators[q]), WeightedSum(Gp_indicators[q])),
                   AddCoef(WeightedSum(Cp_indicators[q]), WeightedSum(Rp_indicators[q]))),
   den |-> 1]

\* Hp = (Lp + Gp + Cp + Rp) / 4, lines 79-85
Hp(q) ==
  [num |-> AddCoef(AddCoef(WeightedSum(Lp_indicators[q]), WeightedSum(Gp_indicators[q])),
                   AddCoef(WeightedSum(Cp_indicators[q]), WeightedSum(Rp_indicators[q]))),
   den |-> Dims]

\* the last person left out of the sum
RECURSIVE SumExprsButLast(_)
SumExprsButLast(hs) ==
  IF Len(hs) <= 2 THEN hs[1]
  ELSE [num |-> AddCoef(hs[1].num, SumExprsButLast(Tail(hs)).num), den |-> hs[1].den]

\* gp.sum(H), line 89
RECURSIVE SumExprs(_)
SumExprs(hs) ==
  IF Len(hs) = 1 THEN hs[1]
  ELSE [num |-> AddCoef(hs[1].num, SumExprs(Tail(hs)).num), den |-> hs[1].den]

\* at least one movie instead of exactly one
CardinalityAtLeast ==
  [lhs |-> [num |-> [k \in 1..NumMovies |-> 1], den |-> 1], rel |-> ">=",
   rhs |-> [n |-> 1, d |-> 1]]

\* gp.sum(x) == 1, line 95
CardinalityConstraint ==
  [lhs |-> [num |-> [k \in 1..NumMovies |-> 1], den |-> 1], rel |-> "==",
   rhs |-> [n |-> 1, d |-> 1]]

\* the floor of the person at list position 0 posted five times
FloorFirstOnly(idx) == [lhs |-> H[1], rel |-> ">=", rhs |-> [n |-> 1, d |-> 2]]

\* H[p] >= 0.5, line 101 (list index idx)
Floor(idx) == [lhs |-> H[idx + 1], rel |-> ">=", rhs |-> [n |-> 1, d |-> 2]]

\* the value rounded down to a whole number
ValueWhole(e, y) == IF y = None THEN None ELSE <<(Dot(e.num, y) \div e.den) * Scale>>

\* expression.value: None until the variables have a value
Value(e, y) == IF y = None THEN None ELSE <<(Dot(e.num, y) * Scale) \div e.den>>

(***************************************************************************)
(* Lines 76-86: H.append(Hp) for person p.                                 *)
(***************************************************************************)
BuildH ==
  /\ pc = "buildH"
  /\ H' = Append(H, Hp(p))
  /\ IF p < NumPersons THEN p' = p + 1 /\ pc' = pc
                       ELSE p' = 0 /\ pc' = "objective"
  /\ UNCHANGED <<movies, person_preferences, Lp_indicators, Gp_indicators,
                 Cp_indicators, Rp_indicators, obj_func, constraints,
                 status, x_value, out, i, error>>

(***************************************************************************)
(* Lines 89-95: the objective and the cardinality constraint.              *)
(***************************************************************************)
BuildObjective ==
  /\ pc = "objective"
  /\ obj_func' = SumExprs(H)
  /\ constraints' = <<CardinalityConstraint>>
  /\ pc' = "floors"
  /\ UNCHANGED <<movies, person_preferences, Lp_indicators, Gp_indicators,
                 Cp_indicators, Rp_indicators, H, status, x_value, out, p, i, error>>

\* range(5), line 100
FloorRange == NumPersons

(***************************************************************************)
(* Lines 100-101: one floor constraint per list position p = 0..4.         *)
(***************************************************************************)
AddFloor ==
  /\ pc = "floors"
  /\ constraints' = Append(constraints, Floor(p))
  /\ IF p + 1 < FloorRange THEN p' = p + 1 /\ pc' = pc
                           ELSE p' = 0 /\ pc' = "solve"
  /\ UNCHANGED <<movies, person_preferences, Lp_indicators, Gp_indicators,
                 Cp_indicators, Rp_indicators, H, obj_func,
                 status, x_value, out, i, error>>

(***************************************************************************)
(* Lines 104-107: the solver, by its contract.  x ranges over the boolean  *)
(* vectors; an assignment is feasible when it satisfies every constraint   *)
(* of the list; the solver returns a feasible assignment of maximal        *)
(* objective, any one of them when several tie, and no value when none is  *)
(* feasible.                                                               *)
(***************************************************************************)
Assignments == [1..NumMovies -> {0, 1}]

Satisfies(c, y) ==
  LET l == Dot(c.lhs.num, y) * c.rhs.d
      r == c.rhs.n * c.lhs.den
  IN IF c.rel = "==" THEN l = r ELSE l >= r

Feasible(cs) == {y \in Assignments : \A k \in 1..Len(cs) : Satisfies(cs[k], y)}

\* the objective minimized
OptimalMinimize(obj, cs) ==
  {y \in Feasible(cs) : \A z \in Feasible(cs) : Dot(obj.num, z) >= Dot(obj.num, y)}

Optimal(obj, cs) ==
  {y \in Feasible(cs) : \A z \in Feasible(cs) : Dot(obj.num, z) <= Dot(obj.num, y)}

Solve ==
  /\ pc = "solve"
  /\ IF Feasible(constraints) = {}
       THEN status' = "infeasible" /\ x_value' = None
       ELSE status' = "optimal" /\ x_value' \in Optimal(obj_func, constraints)
  /\ pc' = "print_obj"
  /\ UNCHANGED <<movies, person_preferences, Lp_indicators, Gp_indicators,
                 Cp_indicators, Rp_indicators, H, obj_func, constraints,
                 out, p, i, error>>

(***************************************************************************)
(* Lines 110-123: the reporter.  A printed line is [tag, val, txt].        *)
(***************************************************************************)
Line(tag, val, txt) == [tag |-> tag, val |-> val, txt |-> txt]

\* lines 110-114
PrintHeader ==
  /\ pc = "print_obj"
  /\ out' = out \o <<Line("obj_func =", None, ""),
                     Line("obj_func.value", Value(obj_func, x_value), ""),
                     Line("x =", None, ""),
                     Line("x.value", x_value, ""),
                     Line("Selected movie:", None, "")>>
  /\ pc' = "print_movie"
  /\ i' = 0
  /\ UNCHANGED <<movies, person_preferences, Lp_indicators, Gp_indicators,
                 Cp_indicators, Rp_indicators, H, obj_func, constraints,
                 status, x_value, p, error>>

\* x.value[i] > 0.5, line 116
Selected(y, k) == 2 * y[k] > 1

\* lines 115-119, list index i
PrintMovie ==
  /\ pc = "print_movie"
  /\ LET movie == movies[i + 1]
         okName == Has(movie, "name")
         okAttrs == /\ Has(movie, "length") /\ Has(movie, "genre")
                    /\ Has(movie, "cost") /\ Has(movie, "rating")
     IN IF x_value = None
          THEN Halt("TypeError") /\ UNCHANGED <<out, i>>
          ELSE IF ~Selected(x_value, i + 1)
                 THEN /\ out' = out
                      /\ error' = error
                      /\ IF i + 1 < NumMovies THEN i' = i + 1 /\ pc' = pc
                                              ELSE i' = 0 /\ pc' = "print_H"
                 ELSE IF ~okName
                        THEN Halt("KeyError") /\ UNCHANGED <<out, i>>
                        ELSE IF ~okAttrs
                               THEN /\ Halt("KeyError")
                                    /\ out' = Append(out, Line("Movie", <<i + 1>>, movie.name))
                                    /\ i' = i
                               ELSE /\ out' = out \o
                                         <<Line("Movie", <<i + 1>>, movie.name),
                                           Line("Attrs", <<movie.length, movie.cost, movie.rating>>,
                                                movie.genre)>>
                                    /\ error' = error
                                    /\ IF i + 1 < NumMovies THEN i' = i + 1 /\ pc' = pc
                                                            ELSE i' = 0 /\ pc' = "print_H"
  /\ p' = 0
  /\ UNCHANGED <<movies, person_preferences, Lp_indicators, Gp_indicators,
                 Cp_indicators, Rp_indicators, H, obj_func, constraints,
                 status, x_value>>

\* lines 121-123, list index p (the header of line 121 with the first one)
PrintH ==
  /\ pc = "print_H"
  /\ LET head == IF p = 0 THEN <<Line("Preference satisfaction", None, "")>> ELSE <<>>
     IN IF Value(H[p + 1], x_value) = None
          THEN Halt("TypeError") /\ out' = out \o head /\ p' = p
          ELSE /\ out' = out \o head \o <<Line("Person", <<p + 1>> \o Value(H[p + 1], x_value), "")>>
               /\ error' = error
               /\ IF p + 1 < NumPersons THEN p' = p + 1 /\ pc' = pc
                                        ELSE p' = p + 1 /\ pc' = "done"
  /\ UNCHANGED <<movies, person_preferences, Lp_indicators, Gp_indicators,
                 Cp_indicators, Rp_indicators, H, obj_func, constraints,
                 status, x_value, i>>

Next ==
  \/ Preprocess
  \/ BuildH
  \/ BuildObjective
  \/ AddFloor
  \/ Solve
  \/ PrintHeader
  \/ PrintMovie
  \/ PrintH

Spec == Init /\ [][Next]_vars

(***************************************************************************)
(* Vocabulary of the properties, stated from the input tables.             *)
(***************************************************************************)
IsReference == movies = RefMovies /\ person_preferences = RefPrefs

\* the preprocessing loop has run to its end
PreprocessDone == pc # "preprocess" /\ (pc = "halted" => status # "unsolved")

\* the solve has returned an assignment
Solved == status = "optimal"

LengthOk(q, m) ==
  /\ person_preferences[q].length[1] <= movies[m].length
  /\ movies[m].length <= person_preferences[q].length[2]

GenreOk(q, m) == movies[m].genre \in person_preferences[q].genres

CostOk(q, m) ==
  /\ person_preferences[q].cost[1] <= movies[m].cost
  /\ movies[m].cost <= person_preferences[q].cost[2]

RatingOk(q, m) ==
  /\ person_preferences[q].rating[1] <= movies[m].rating
  /\ movies[m].rating <= person_preferences[q].rating[2]

\* how many of person q's four preferences movie m meets
Met(q, m) ==
  Cardinality({d \in {"length", "genre", "cost", "rating"} :
     \/ d = "length" /\ LengthOk(q, m)
     \/ d = "genre" /\ GenreOk(q, m)
     \/ d = "cost" /\ CostOk(q, m)
     \/ d = "rating" /\ RatingOk(q, m)})

\* the total over the persons, in quarters
Total(m) == Met(1, m) + Met(2, m) + Met(3, m) + Met(4, m) + Met(5, m)

\* movie m gives every person at least 2 of 4
MeetsFloors(m) == \A q \in PersonIds : Met(q, m) >= 2

Ones(y) == {k \in MovieIds : y[k] = 1}

\* the movies the assignment selects, when it selects exactly one
TheSelected == CHOOSE k \in MovieIds : x_value[k] = 1

LinesTagged(t) == {k \in 1..Len(out) : out[k].tag = t}

\* C1: every indicator computed so far is 1 exactly when its closed-range or
\* membership predicate holds and 0 otherwise, and once preprocessing has run
\* to its end it is defined for all 5 persons and all 4 movies.
C1_IndicatorCorrect ==
  /\ \A q \in DOMAIN Lp_indicators : \A m \in 1..Len(Lp_indicators[q]) :
       Lp_indicators[q][m] = IF LengthOk(q, m) THEN 1 ELSE 0
  /\ \A q \in DOMAIN Gp_indicators : \A m \in 1..Len(Gp_indicators[q]) :
       Gp_indicators[q][m] = IF GenreOk(q, m) THEN 1 ELSE 0
  /\ \A q \in DOMAIN Cp_indicators : \A m \in 1..Len(Cp_indicators[q]) :
       Cp_indicators[q][m] = IF CostOk(q, m) THEN 1 ELSE 0
  /\ \A q \in DOMAIN Rp_indicators : \A m \in 1..Len(Rp_indicators[q]) :
       Rp_indicators[q][m] = IF RatingOk(q, m) THEN 1 ELSE 0
  /\ PreprocessDone =>
       /\ DOMAIN Lp_indicators = PersonIds /\ DOMAIN Gp_indicators = PersonIds
       /\ DOMAIN Cp_indicators = PersonIds /\ DOMAIN Rp_indicators = PersonIds
       /\ \A q \in PersonIds :
            /\ Len(Lp_indicators[q]) = NumMovies /\ Len(Gp_indicators[q]) = NumMovies
            /\ Len(Cp_indicators[q]) = NumMovies /\ Len(Rp_indicators[q]) = NumMovies

\* a value on the upper bound and a value on the lower bound, both indicated 1
C1_Witness ==
  /\ PreprocessDone
  /\ \E q \in PersonIds : \E m, n \in MovieIds :
       /\ movies[m].length = person_preferences[q].length[2]
       /\ movies[n].length = person_preferences[q].length[1]
       /\ m # n
       /\ Lp_indicators[q][m] = 1 /\ Lp_indicators[q][n] = 1
  /\ \E q \in PersonIds : \E m \in MovieIds :
       movies[m].rating = person_preferences[q].rating[2] /\ Rp_indicators[q][m] = 1
  /\ \E q \in PersonIds : \E m \in MovieIds :
       movies[m].cost = person_preferences[q].cost[1] /\ Cp_indicators[q][m] = 1

\* C2: a returned assignment has the largest total satisfaction among the
\* selections of exactly one movie that give every person at least 2 of 4.
C2_Maximal ==
  Solved =>
    \A y \in Assignments :
      (\E m \in MovieIds : Ones(y) = {m} /\ MeetsFloors(m)) =>
        SumSeq([k \in MovieIds |-> y[k] * Total(k)])
          <= SumSeq([k \in MovieIds |-> x_value[k] * Total(k)])

\* a returned optimum that beats another feasible movie strictly
C2_Witness ==
  /\ Solved
  /\ \E m \in MovieIds :
       /\ MeetsFloors(m) /\ x_value[m] = 0
       /\ Total(m) < SumSeq([k \in MovieIds |-> x_value[k] * Total(k)])

\* C3: a returned assignment has exactly one variable at 1 and the others at
\* 0, and the reporter's loop over x_i > 0.5 names exactly one movie, the
\* selected one.
C3_ExactlyOne ==
  /\ Solved =>
       /\ x_value \in Assignments
       /\ SumSeq(x_value) = 1
       /\ Cardinality(Ones(x_value)) = 1
  /\ (Solved /\ pc \in {"print_H", "done"}) =>
       /\ Cardinality(LinesTagged("Movie")) = 1
       /\ \A k \in LinesTagged("Movie") : out[k].val = <<TheSelected>>

C3_Witness ==
  /\ Solved /\ pc = "done"
  /\ \E k \in LinesTagged("Movie") : out[k].val = <<3>>

\* C4: in a returned solution every one of the 5 persons has at least 2 of
\* their 4 indicators at 1 for the selected movie (H_e >= 0.5), and the
\* floor constraint at list position idx is H of person idx+1 >= 1/2.
C4_Floor ==
  /\ Solved =>
       \A q \in PersonIds :
         /\ 2 * Dot(H[q].num, x_value) >= H[q].den
         /\ \A m \in Ones(x_value) : Met(q, m) >= 2
  /\ pc \in {"solve", "print_obj", "print_movie", "print_H", "done"} =>
       /\ Len(constraints) = NumPersons + 1
       /\ \A idx \in 0..(NumPersons - 1) :
            /\ constraints[idx + 2].lhs.num = [m \in MovieIds |-> Met(idx + 1, m)]
            /\ constraints[idx + 2].lhs.den = 4
            /\ constraints[idx + 2].rel = ">="
            /\ 2 * constraints[idx + 2].rhs.n = constraints[idx + 2].rhs.d

\* the floor decides: a movie of larger total is passed over because it
\* leaves some person under 2 of 4
C4_Witness ==
  /\ Solved
  /\ \E m \in MovieIds :
       /\ ~MeetsFloors(m)
       /\ Total(m) > SumSeq([k \in MovieIds |-> x_value[k] * Total(k)])

\* C5: when no movie meets every person's floor, the run ends with the
\* infeasible outcome reported as such, names no movie and never completes
\* a report.
C5_InfeasibleReported ==
  (PreprocessDone /\ \A m \in MovieIds : ~MeetsFloors(m)) =>
    /\ pc # "done"
    /\ LinesTagged("Movie") = {}
    /\ status \in {"unsolved", "infeasible"}
    /\ pc = "halted" => error = "InfeasibleModelError"

\* C6: either the complete report or no result line at all: a run that
\* ended in an error, or whose solve ended without an optimum, has printed
\* nothing.
C6_NoPartialOutput ==
  /\ pc = "halted" => out = <<>>
  /\ status = "infeasible" => out = <<>>
  /\ pc = "done" =>
       /\ Cardinality(LinesTagged("Person")) = NumPersons
       /\ LinesTagged("Movie") # {}
       /\ LinesTagged("obj_func.value") # {}

BadRange(r) == r[1] > r[2]

InvalidInput ==
  \/ \E q \in PersonIds :
       \/ DOMAIN person_preferences[q] # {"length", "cost", "rating", "genres"}
       \/ \E k \in DOMAIN person_preferences[q] \ {"genres"} :
            BadRange(person_preferences[q][k])
  \/ \E m \in MovieIds :
       DOMAIN movies[m] # {"name", "length", "genre", "cost", "rating"}

\* C7: with a range whose min exceeds its max, or with an attribute absent,
\* the run never leaves preprocessing except by failing there on the input
\* (the failure is counted whatever the exception is called): no expression,
\* constraint or solve follows.
C7_InvalidInputRejected ==
  InvalidInput =>
    \/ pc = "preprocess"
    \/ /\ pc = "halted" /\ error # "none"
       /\ status = "unsolved" /\ H = <<>> /\ constraints = <<>>

\* C8: for every person and movie the four indicators sum to an integer in
\* 0..4, H holds that sum over 4 (a mean of 0, 0.25, 0.5, 0.75 or 1), and
\* under a returned selection H_e is the selected movie's sum divided by 4.
C8_QuarterSteps ==
  /\ PreprocessDone =>
       \A q \in PersonIds : \A m \in MovieIds :
         /\ Lp_indicators[q][m] + Gp_indicators[q][m]
              + Cp_indicators[q][m] + Rp_indicators[q][m] \in 0..4
         /\ q \in 1..Len(H) =>
              /\ H[q].num[m] = Lp_indicators[q][m] + Gp_indicators[q][m]
                                 + Cp_indicators[q][m] + Rp_indicators[q][m]
              /\ Value(H[q], [k \in MovieIds |-> IF k = m THEN 1 ELSE 0])
                   \in {<<0>>, <<2500>>, <<5000>>, <<7500>>, <<10000>>}
  /\ Solved =>
       \A q \in PersonIds :
         Value(H[q], x_value) = <<(Met(q, TheSelected) * Scale) \div 4>>

\* all five values occur
C8_Witness ==
  /\ Solved
  /\ \E m \in MovieIds : {H[q].num[m] : q \in PersonIds} = 0..4

\* C9: the printed objective is the sum of the five hand-computed H_e of
\* the movie the report names, and the line of person q shows the mean of
\* person q's four indicators for that movie.
C9_ReportMatches ==
  pc = "done" =>
    \A k \in LinesTagged("Movie") :
      LET m == out[k].val[1]
      IN /\ \A j \in LinesTagged("obj_func.value") :
              out[j].val = <<(Total(m) * Scale) \div 4>>
         /\ \A q \in PersonIds :
              \E j \in LinesTagged("Person") :
                out[j].val = <<q, (Met(q, m) * Scale) \div 4>>
         /\ \A j \in LinesTagged("Person") :
              out[j].val = <<out[j].val[1], (Met(out[j].val[1], m) * Scale) \div 4>>

C9_Witness ==
  /\ IsReference /\ pc = "done"
  /\ LinesTagged("Movie") # {}
  /\ Cardinality(LinesTagged("Person")) = NumPersons

\* C10: on the reference tables only movies 1 and 2 meet every floor (movie
\* 3 gives person 2 one of four, movie 4 gives person 5 one of four), and
\* every solve selects movie 2 with objective 3.75 and H = 0.75, 0.5, 0.75,
\* 1.0, 0.75.
C10_Reference ==
  IsReference =>
    /\ Len(H) = NumPersons =>
         /\ {m \in MovieIds : \A q \in PersonIds : H[q].num[m] >= 2} = {1, 2}
         /\ H[2].num[3] = 1
         /\ H[5].num[4] = 1
    /\ status # "unsolved" =>
         /\ status = "optimal"
         /\ x_value = <<0, 1, 0, 0>>
         /\ Optimal(obj_func, constraints) = {<<0, 1, 0, 0>>}
         /\ Value(obj_func, x_value) = <<37500>>
    /\ pc = "done" =>
         /\ {out[k].txt : k \in LinesTagged("Movie")} = {"Night of the Museum"}
         /\ \A k \in LinesTagged("obj_func.value") : out[k].val = <<37500>>
         /\ {out[k].val : k \in LinesTagged("Person")}
              = {<<1, 7500>>, <<2, 5000>>, <<3, 7500>>, <<4, 10000>>, <<5, 7500>>}

C10_Witness ==
  /\ IsReference /\ pc = "done"
  /\ x_value = <<0, 1, 0, 0>>
  /\ Len(out) = 13
====
